---- MODULE Spec2Model ----
(***************************************************************************)
(* Model of the Sidecar bridge (electron/lib/main/sidecar.ts): the host    *)
(* side of a line-oriented JSON protocol with a worker process.            *)
(*                                                                         *)
(* State: the pending map, the single progress callback, the writeLock     *)
(* promise chain, the promises returned by call(), and what has been       *)
(* handed to the worker's stdin.  The worker, the stdin stream and the     *)
(* event loop are the environment: lines arrive, write callbacks fire      *)
(* with or without an error, the flush timer fires, the process exits.     *)
(* Promise reactions (microtasks) run to completion before the event loop  *)
(* dispatches the next I/O or timer callback.                              *)
(***************************************************************************)
EXTENDS Integers, Sequences, FiniteSets, TLC

\* ------------------------------------------------------------------ bounds
MaxCalls == 2

\* randomUUID(): a string no earlier call was given; ids are opaque, so the
\* n-th call is given the n-th string of a pool of distinct ones
IdPool == <<"a", "b", "c", "d", "e">>
FreshId(n) == IdPool[n]
Ids == {FreshId(k) : k \in 1..MaxCalls}
\* an id the worker may send that no call ever generated
StrayId == "stray"

Methods == {"transcribe"}
Params == {"a.wav"}

\* ------------------------------------------------------------ JSON values
\* A JSON value is <<type, text>>; Absent is JavaScript's undefined (the
\* value of a property the parsed object does not have).
Absent == <<"undefined", "">>
JNull == <<"null", "null">>
JFalse == <<"bool", "false">>
JZero == <<"num", "0">>
JEmpty == <<"str", "">>
JStr(s) == <<"str", s>>
JObj == <<"obj", "{text:hello}">>

\* JavaScript truthiness, as used by the && tests of the line handler
Truthy(v) ==
    CASE v[1] = "undefined" -> FALSE
      [] v[1] = "null" -> FALSE
      [] v[1] = "bool" -> v[2] = "true"
      [] v[1] = "num" -> v[2] # "0"
      [] v[1] = "str" -> v[2] # ""
      [] OTHER -> TRUE

\* String(v), the message new Error(v) carries
ErrMessage(v) == IF v[1] = "obj" THEN "[object Object]" ELSE v[2]

\* ------------------------------------------------------------------ errors
\* An Error object: its message and the place that created it (src is the
\* call whose write created it, 0 for an Error built from a response).
NoErr == [kind |-> "none", msg |-> "", src |-> 0]
WriteErr(i) == [kind |-> "write", msg |-> "EPIPE", src |-> i]
UnavailErr(i) == [kind |-> "unavail", msg |-> "Sidecar process not available", src |-> i]
RespErr(v) == [kind |-> "resp", msg |-> ErrMessage(v), src |-> 0]

\* ---------------------------------------------------------------- promises
PendingFut == [st |-> "pending", val |-> Absent, err |-> NoErr]
Resolved(v) == [st |-> "resolved", val |-> v, err |-> NoErr]
Rejected(e) == [st |-> "rejected", val |-> Absent, err |-> e]

\* resolve()/reject() of a promise: only the first call has an effect
Settle(f, outcome) == IF f.st = "pending" THEN outcome ELSE f

\* ------------------------------------------------------------------- lines
\* One line of the worker's stdout after JSON.parse: json says whether the
\* text parsed ("invalid": JSON.parse throws), and to what ("null",
\* "object"); for an object the four properties the
\* handler reads.
MkLine(j, ev, id, res, er) ==
    [json |-> j, event |-> ev, id |-> id, result |-> res, error |-> er]
NoLine == MkLine("none", Absent, Absent, Absent, Absent)
NotJson == MkLine("invalid", Absent, Absent, Absent, Absent)
NullLine == MkLine("null", Absent, Absent, Absent, Absent)
ObjLine(ev, id, res, er) == MkLine("object", ev, id, res, er)

\* one value of each JSON type a result may have
ResultVals == {JObj, JStr("hello"), JZero, JFalse, JNull}
ErrorVals == {JStr("model not found"), JEmpty}
ProgressEv == JStr("Progress")

SuccessLines(ids) == {ObjLine(Absent, JStr(x), r, Absent) : x \in ids, r \in ResultVals}
FailureLines(ids) == {ObjLine(Absent, JStr(x), Absent, e) : x \in ids, e \in ErrorVals}
BothLines(ids) == {ObjLine(Absent, JStr(x), JObj, JStr("boom")) : x \in ids}
ProgressLines(ids) == {ObjLine(ProgressEv, JStr(x), Absent, Absent) : x \in ids}
\* a line with event "Progress" that also has a result field
ProgressWithResult(ids) == {ObjLine(ProgressEv, JStr(x), JObj, Absent) : x \in ids}
\* lines carrying an id no call generated
StrayLines ==
    { ObjLine(Absent, JStr(StrayId), JObj, Absent),
      ObjLine(Absent, JStr(StrayId), Absent, JStr("model not found")),
      ObjLine(ProgressEv, JStr(StrayId), Absent, Absent) }
\* text that is not JSON, JSON null, and objects without a usable id
OtherLines ==
    { NotJson, NullLine,
      ObjLine(Absent, Absent, Absent, Absent),
      ObjLine(Absent, Absent, JObj, Absent),
      ObjLine(Absent, JEmpty, JObj, Absent) }
LinesFor(ids) ==
    SuccessLines(ids) \cup FailureLines(ids) \cup BothLines(ids)
        \cup ProgressLines(ids) \cup ProgressWithResult(ids) \cup StrayLines
        \cup OtherLines

\* ----------------------------------------------------------------- encoding
\* JSON.stringify({ id, method, params }) + '\n': the record's text followed
\* by one newline, as a sequence of two tokens.
JsonTok(c) == [t |-> "json", id |-> c.id, method |-> c.method, params |-> c.params]
NlTok == [t |-> "nl", id |-> "", method |-> "", params |-> ""]
Encode(c) == <<JsonTok(c), NlTok>>

\* ------------------------------------------------------------------- state
VARIABLES
    calls,      \* the call() invocations so far, in order: id, method, params, onProgress given
    pending,    \* this.pending: id -> the call whose resolve/reject it holds
    fut,        \* the promise call() returned, per call
    progressCb, \* this.progressCb: the call whose onProgress is installed, 0 = null
    w,          \* per call, where its link of the writeLock chain stands
    werr,       \* per call, the Error its link was rejected with
    caught,     \* per call, whether call()'s .catch handler has run
    stdin,      \* the tokens handed to proc.stdin.write, in order
    stdinAvail, \* this.proc && this.proc.stdin
    procExited, \* the worker's 'exit' event was emitted
    rlOpen,     \* the readline interface still emits 'line'
    readerUp,   \* no exception has escaped the 'line' listener
    last        \* the operation that produced this state, and what it observed

vars == <<calls, pending, fut, progressCb, w, werr, caught, stdin, stdinAvail,
          procExited, rlOpen, readerUp, last>>

NumCalls == Len(calls)
CallIdx == 1..NumCalls

MkLast(op, i, line, hit, cb) ==
    [op |-> op, i |-> i, line |-> line, hit |-> hit, cb |-> cb]

\* --------------------------------------------------------------- Map helpers
\* Map.has
MapHas(m, k) == k \in DOMAIN m
\* (mutant) a set that stores nothing
MapSetSkip(m, k, v) == m
\* Map.set
MapSet(m, k, v) == [x \in DOMAIN m \cup {k} |-> IF x = k THEN v ELSE m[x]]
\* (mutant) delete that clears the table
MapDeleteAll(m, k) == [x \in {} |-> 0]
\* (mutant) delete that removes nothing
MapDeleteNone(m, k) == m
\* Map.delete
MapDelete(m, k) == [x \in DOMAIN m \ {k} |-> m[x]]
\* (mutant) a lookup that falls back to some entry when the key is missing
MapGetAny(m, k) ==
    IF k \in DOMAIN m THEN m[k]
    ELSE IF DOMAIN m = {} THEN 0 ELSE m[CHOOSE x \in DOMAIN m : TRUE]
\* Map.get: the entry's call, 0 for undefined
MapGet(m, k) == IF k \in DOMAIN m THEN m[k] ELSE 0

Init ==
    /\ calls = <<>>
    /\ pending = [x \in {} |-> 0]
    /\ fut = <<>>
    /\ progressCb = 0
    /\ w = <<>>
    /\ werr = <<>>
    /\ caught = <<>>
    /\ stdin = <<>>
    \* proc.stdin is typed Writable | null: whether spawn gave a stdin pipe is
    \* fixed at construction, and writeWithLock tests it on every write
    /\ stdinAvail \in BOOLEAN
    /\ procExited = FALSE
    /\ rlOpen = TRUE
    /\ readerUp = TRUE
    /\ last = MkLast("init", 0, NoLine, FALSE, 0)


\* ------------------------------------------------------- the writeLock chain
\* Link i is the promise writeWithLock assigned to this.writeLock for call i:
\* "queued" (its .then callback has not run), "writing" (stdin.write called,
\* its callback not yet), "flushing" (callback without error, the 5 ms timer
\* armed), "done" (fulfilled), "failed" (rejected with werr[i]).
PrevFulfilled(i) == IF i = 1 THEN TRUE ELSE w[i - 1] = "done"
PrevRejected(i) == IF i = 1 THEN FALSE ELSE w[i - 1] = "failed"

\* (mutant) a write that does not wait for the previous link
CanStartUnchained(i) == TRUE
\* (mutant) a write that starts as soon as the previous write was issued
CanStartEarly(i) == IF i = 1 THEN TRUE ELSE w[i - 1] \in {"writing", "flushing", "done"}
\* the .then callback of link i runs once the previous link is fulfilled
CanStartWrite(i) == PrevFulfilled(i)

\* a promise reaction is ready to run
MicrotaskEnabled ==
    \E i \in CallIdx :
        \/ w[i] = "queued" /\ (CanStartWrite(i) \/ PrevRejected(i))
        \/ w[i] = "failed" /\ ~caught[i]

HandedIds == {stdin[k].id : k \in 1..Len(stdin)} \ {""}

\* (mutant) onProgress installed only while no handler is set
InstallFirstOnly(cb, n, given) == IF given /\ cb = 0 THEN n ELSE cb
\* (mutant) a call without onProgress clears the installed handler
InstallOrClear(cb, n, given) == IF given THEN n ELSE 0
\* if (onProgress) this.progressCb = onProgress
InstallHandler(cb, n, given) == IF given THEN n ELSE cb

\* call(method, params, onProgress?)
Call(id, m, p, given) ==
    /\ NumCalls < MaxCalls
    /\ id = FreshId(NumCalls + 1)
    /\ LET n == NumCalls + 1 IN
        /\ progressCb' = InstallHandler(progressCb, n, given)
        /\ calls' = Append(calls, [id |-> id, method |-> m, params |-> p, handler |-> given])
        /\ pending' = MapSet(pending, id, n)
        /\ fut' = Append(fut, PendingFut)
        /\ w' = Append(w, "queued")
        /\ werr' = Append(werr, NoErr)
        /\ caught' = Append(caught, FALSE)
        /\ last' = MkLast("call", n, NoLine, FALSE, 0)
    /\ UNCHANGED <<stdin, stdinAvail, procExited, rlOpen, readerUp>>

\* the .then callback of writeWithLock: reject when the process or its stdin
\* is missing, otherwise hand the record to stdin.write
StartWrite(i) ==
    /\ i \in CallIdx
    /\ w[i] = "queued"
    /\ CanStartWrite(i)
    /\ IF ~stdinAvail
       THEN /\ w' = [w EXCEPT ![i] = "failed"]
            /\ werr' = [werr EXCEPT ![i] = UnavailErr(i)]
            /\ stdin' = stdin
       ELSE /\ w' = [w EXCEPT ![i] = "writing"]
            /\ werr' = werr
            /\ stdin' = stdin \o Encode(calls[i])
    /\ last' = MkLast("startWrite", i, NoLine, FALSE, 0)
    /\ UNCHANGED <<calls, pending, fut, progressCb, caught, stdinAvail, procExited,
                   rlOpen, readerUp>>

\* .then(onFulfilled) on a rejected writeLock: the callback is skipped and the
\* new link is rejected with the same Error; .catch logs and rethrows it
SkipWrite(i) ==
    /\ i \in CallIdx
    /\ w[i] = "queued"
    /\ PrevRejected(i)
    /\ w' = [w EXCEPT ![i] = "failed"]
    /\ werr' = [werr EXCEPT ![i] = werr[i - 1]]
    /\ last' = MkLast("skipWrite", i, NoLine, FALSE, 0)
    /\ UNCHANGED <<calls, pending, fut, progressCb, caught, stdin, stdinAvail,
                   procExited, rlOpen, readerUp>>

\* (mutant) a write callback that queues the request again after an error
WriteCallbackRetry(i, failed) ==
    /\ i \in CallIdx
    /\ ~MicrotaskEnabled
    /\ w[i] = "writing"
    /\ w' = [w EXCEPT ![i] = IF failed THEN "queued" ELSE "flushing"]
    /\ last' = MkLast("writeCallback", i, NoLine, FALSE, 0)
    /\ UNCHANGED <<calls, pending, fut, progressCb, werr, caught, stdin, stdinAvail,
                   procExited, rlOpen, readerUp>>

\* the callback of stdin.write: reject(err), or arm setTimeout(resolve, 5)
WriteCallback(i, failed) ==
    /\ i \in CallIdx
    /\ ~MicrotaskEnabled
    /\ w[i] = "writing"
    /\ IF failed
       THEN /\ w' = [w EXCEPT ![i] = "failed"]
            /\ werr' = [werr EXCEPT ![i] = WriteErr(i)]
       ELSE /\ w' = [w EXCEPT ![i] = "flushing"]
            /\ werr' = werr
    /\ last' = MkLast("writeCallback", i, NoLine, FALSE, 0)
    /\ UNCHANGED <<calls, pending, fut, progressCb, caught, stdin, stdinAvail,
                   procExited, rlOpen, readerUp>>

\* the 5 ms timer fires: the link is fulfilled
FlushTimer(i) ==
    /\ i \in CallIdx
    /\ ~MicrotaskEnabled
    /\ w[i] = "flushing"
    /\ w' = [w EXCEPT ![i] = "done"]
    /\ last' = MkLast("flushTimer", i, NoLine, FALSE, 0)
    /\ UNCHANGED <<calls, pending, fut, progressCb, werr, caught, stdin, stdinAvail,
                   procExited, rlOpen, readerUp>>

\* (mutant) a .catch handler that forgets pending.delete(id)
CatchKeepEntry(m, k) == m
\* the .catch handler of call(): pending.delete(id); reject(err)
CatchDelete(m, k) == MapDelete(m, k)

CatchWrite(i) ==
    /\ i \in CallIdx
    /\ w[i] = "failed"
    /\ ~caught[i]
    /\ pending' = CatchDelete(pending, calls[i].id)
    /\ fut' = [fut EXCEPT ![i] = Settle(@, Rejected(werr[i]))]
    /\ caught' = [caught EXCEPT ![i] = TRUE]
    /\ last' = MkLast("catch", i, NoLine, FALSE, 0)
    /\ UNCHANGED <<calls, progressCb, w, werr, stdin, stdinAvail, procExited, rlOpen,
                   readerUp>>

\* ------------------------------------------------------- the 'line' listener
\* JSON.parse throws on text that is not JSON; msg.event throws on null
Throws(l) == l.json \in {"invalid", "null"}
\* the catch block logs and the listener returns normally
CatchBlock(threw) == TRUE

IdKey(l) == l.id[2]
ProgressBranch(l, cb) == ~Throws(l) /\ l.event = ProgressEv /\ cb # 0
\* if (msg.result && msg.id)
SuccessBranch(l, cb) ==
    ~Throws(l) /\ ~ProgressBranch(l, cb) /\ Truthy(l.result) /\ Truthy(l.id)
ErrorBranch(l, cb) ==
    /\ ~Throws(l) /\ ~ProgressBranch(l, cb) /\ ~SuccessBranch(l, cb)
    /\ Truthy(l.error) /\ Truthy(l.id)

Line(l) ==
    /\ rlOpen
    /\ readerUp
    /\ ~MicrotaskEnabled
    /\ l \in LinesFor(HandedIds)
    /\ LET e == MapGet(pending, IdKey(l)) IN
        IF ProgressBranch(l, progressCb)
        THEN /\ last' = MkLast("line", 0, l, FALSE, progressCb)
             /\ UNCHANGED <<pending, fut>>
        ELSE IF SuccessBranch(l, progressCb)
        THEN /\ fut' = IF e # 0 THEN [fut EXCEPT ![e] = Settle(@, Resolved(l.result))]
                       ELSE fut
             /\ pending' = MapDelete(pending, IdKey(l))
             /\ last' = MkLast("line", e, l, e # 0, 0)
        ELSE IF ErrorBranch(l, progressCb)
        THEN /\ fut' = IF e # 0 THEN [fut EXCEPT ![e] = Settle(@, Rejected(RespErr(l.error)))]
                       ELSE fut
             /\ pending' = MapDelete(pending, IdKey(l))
             /\ last' = MkLast("line", e, l, e # 0, 0)
        ELSE /\ last' = MkLast("line", 0, l, FALSE, 0)
             /\ UNCHANGED <<pending, fut>>
    /\ readerUp' = CatchBlock(Throws(l))
    /\ UNCHANGED <<calls, progressCb, w, werr, caught, stdin, stdinAvail, procExited,
                   rlOpen>>

\* ------------------------------------------------------- process and stream
\* (mutant) an 'exit' handler that fails every outstanding entry
ProcExitSweep ==
    /\ ~MicrotaskEnabled
    /\ ~procExited
    /\ procExited' = TRUE
    /\ pending' = [x \in {} |-> 0]
    /\ fut' = [i \in CallIdx |->
                Settle(fut[i], Rejected([kind |-> "exit", msg |-> "worker terminated",
                                         src |-> 0]))]
    /\ last' = MkLast("exit", 0, NoLine, FALSE, 0)
    /\ UNCHANGED <<calls, progressCb, w, werr, caught, stdin, stdinAvail, rlOpen, readerUp>>

\* proc.on('exit'): logs
ProcExit ==
    /\ ~MicrotaskEnabled
    /\ ~procExited
    /\ procExited' = TRUE
    /\ last' = MkLast("exit", 0, NoLine, FALSE, 0)
    /\ UNCHANGED <<calls, pending, fut, progressCb, w, werr, caught, stdin, stdinAvail,
                   rlOpen, readerUp>>

\* proc.on('error'): logs
ProcError ==
    /\ ~MicrotaskEnabled
    /\ last' = MkLast("error", 0, NoLine, FALSE, 0)
    /\ UNCHANGED <<calls, pending, fut, progressCb, w, werr, caught, stdin, stdinAvail,
                   procExited, rlOpen, readerUp>>

\* the worker's stdout ends: readline emits no further 'line'
RlClose ==
    /\ ~MicrotaskEnabled
    /\ rlOpen
    /\ rlOpen' = FALSE
    /\ last' = MkLast("close", 0, NoLine, FALSE, 0)
    /\ UNCHANGED <<calls, pending, fut, progressCb, w, werr, caught, stdin, stdinAvail,
                   procExited, readerUp>>

Next ==
    \/ \E id \in Ids, m \in Methods, p \in Params, given \in BOOLEAN : Call(id, m, p, given)
    \/ \E i \in 1..MaxCalls : StartWrite(i)
    \/ \E i \in 1..MaxCalls : SkipWrite(i)
    \/ \E i \in 1..MaxCalls, failed \in BOOLEAN : WriteCallback(i, failed)
    \/ \E i \in 1..MaxCalls : FlushTimer(i)
    \/ \E i \in 1..MaxCalls : CatchWrite(i)
    \/ \E l \in LinesFor(Ids) : Line(l)
    \/ ProcExit
    \/ ProcError
    \/ RlClose

Spec == Init /\ [][Next]_vars


\* =========================================================== the claims
\* The shapes of the wire protocol a line can have.
IsSuccessResponse(l) ==
    /\ l.json = "object" /\ l.event = Absent /\ l.id[1] = "str"
    /\ l.result # Absent /\ l.error = Absent
IsFailureResponse(l) ==
    /\ l.json = "object" /\ l.event = Absent /\ l.id[1] = "str"
    /\ l.result = Absent /\ l.error[1] = "str"
IsProgress(l) == l.json = "object" /\ l.event = ProgressEv
IsMalformed(l) == ~IsSuccessResponse(l) /\ ~IsFailureResponse(l) /\ ~IsProgress(l)

\* the step just taken processed a line
LineStep == last'.op = "line"
Handed(i) == \E k \in 1..Len(stdin) : stdin[k] = JsonTok(calls[i])
SettledByResponse(f) == f.st = "resolved" \/ (f.st = "rejected" /\ f.err.kind = "resp")

\* C1: a success Response {id: X, result: R} for an id in the pending table
\* resolves that call's promise with exactly R and removes X from the table,
\* for every JSON value R.
C1_SuccessResolvesAnyResult ==
    [][(LineStep /\ IsSuccessResponse(last'.line) /\ MapHas(pending, IdKey(last'.line)))
        => /\ fut'[pending[IdKey(last'.line)]] = Resolved(last'.line.result)
           /\ ~MapHas(pending', IdKey(last'.line))]_vars

\* C2: a failure Response {id: Y, error: E} for an id in the pending table
\* rejects that call's promise with an Error whose message is E, removes Y
\* from the table, and writes nothing to stdin.
C2_FailureRejectsWithMessage ==
    [][(LineStep /\ IsFailureResponse(last'.line) /\ MapHas(pending, IdKey(last'.line)))
        => /\ fut'[pending[IdKey(last'.line)]].st = "rejected"
           /\ fut'[pending[IdKey(last'.line)]].err.kind = "resp"
           /\ fut'[pending[IdKey(last'.line)]].err.msg = last'.line.error[2]
           /\ ~MapHas(pending', IdKey(last'.line))
           /\ stdin' = stdin]_vars


\* the encoded requests of the first k calls, one after the other
RECURSIVE EncAll(_)
EncAll(k) == IF k = 0 THEN <<>> ELSE EncAll(k - 1) \o Encode(calls[k])

\* C3: what has been handed to stdin is the encoded requests of the calls in
\* the order call() was invoked, whole record after whole record: it is the
\* concatenation for the first h calls, h covers every call whose write has
\* begun, and once every write has completed it is all of them.
C3_FifoWholeRecords ==
    \E h \in 0..NumCalls :
        /\ stdin = EncAll(h)
        /\ \A i \in CallIdx : w[i] \in {"writing", "flushing", "done"} => i <= h
        /\ (\A i \in CallIdx : w[i] = "done") => h = NumCalls

\* C3 witness: the second call was invoked while the first write is still
\* outstanding; the first record has been handed over, the second is held back
C3_Witness ==
    /\ NumCalls >= 2
    /\ w[1] = "flushing" /\ w[2] = "queued"
    /\ stdin = Encode(calls[1])

\* C4: with the process and its stdin available, every call whose link of
\* the write chain has settled, also behind a failed write, was handed to stdin.
C4_WritesProceedAfterFailure ==
    \A i \in CallIdx : (stdinAvail /\ w[i] \in {"done", "failed"}) => Handed(i)

\* C5: a promise rejected with a write failure was rejected with the failure
\* of its own call's write, never with that of another call.
C5_WriteFailureOnlyToIssuer ==
    \A i \in CallIdx :
        (fut[i].st = "rejected" /\ fut[i].err.kind = "write") => fut[i].err.src = i

\* C6: processing a line carrying id X leaves every pending entry with another
\* id in the table, and settles no promise of a call with another id.
C6_OtherEntriesUntouched ==
    [][LineStep =>
        /\ \A x \in DOMAIN pending :
              x # IdKey(last'.line) => (MapHas(pending', x) /\ pending'[x] = pending[x])
        /\ \A i \in CallIdx :
              calls[i].id # IdKey(last'.line) => fut'[i] = fut[i]]_vars

\* C6 witness: a Response settled one call while another call is pending
C6_Witness ==
    /\ last.op = "line" /\ last.hit
    /\ fut[last.i].st # "pending"
    /\ \E x \in DOMAIN pending : x # IdKey(last.line) /\ fut[pending[x]].st = "pending"


\* C7: a line that is not JSON, or that parses but is neither a Response
\* (an id with exactly one of result and error) nor a Progress notification,
\* settles nothing, leaves the table and the progress handler unchanged, and
\* leaves the reader running: a valid Response line that follows it is routed
\* to its pending entry.
C7_MalformedLineIgnored ==
    [][/\ (LineStep /\ IsMalformed(last'.line))
            => /\ pending' = pending
               /\ fut' = fut
               /\ progressCb' = progressCb
               /\ readerUp'
       /\ (/\ last.op = "line" /\ IsMalformed(last.line)
           /\ LineStep
           /\ IsSuccessResponse(last'.line) \/ IsFailureResponse(last'.line)
           /\ MapHas(pending, IdKey(last'.line)))
            => /\ fut'[pending[IdKey(last'.line)]].st # "pending"
               /\ ~MapHas(pending', IdKey(last'.line))]_vars

\* C8: a Response whose id is not in the pending table changes neither the
\* table nor any promise, invokes no callback and raises nothing.
C8_UnknownIdIsNoOp ==
    [][(LineStep /\ last'.line.json = "object" /\ last'.line.event = Absent
            /\ last'.line.id[1] = "str" /\ ~MapHas(pending, IdKey(last'.line)))
        => /\ pending' = pending
           /\ fut' = fut
           /\ ~last'.hit /\ last'.i = 0 /\ last'.cb = 0
           /\ readerUp']_vars

\* C8 witness: a second Response for an id an earlier Response already settled
C8_Witness ==
    /\ last.op = "line" /\ IsSuccessResponse(last.line) /\ Truthy(last.line.result)
    /\ ~last.hit
    /\ \E i \in CallIdx :
          /\ calls[i].id = IdKey(last.line)
          /\ fut[i].st = "rejected" /\ fut[i].err.kind = "resp"

\* the most recent call that supplied onProgress, 0 when none did
LatestHandler ==
    IF \E i \in CallIdx : calls[i].handler
    THEN CHOOSE i \in CallIdx :
            calls[i].handler /\ \A j \in CallIdx : calls[j].handler => j <= i
    ELSE 0

\* C9: a Progress notification is delivered to the handler of the most recent
\* call that supplied one, whatever id the notification carries, and to no
\* earlier call's handler.
C9_ProgressToLatestHandler ==
    (last.op = "line" /\ IsProgress(last.line)) => last.cb = LatestHandler

\* C9 witness: A and B both supplied a handler, A is still pending, and a
\* notification carrying A's id went to B's handler
C9_Witness ==
    /\ NumCalls >= 2 /\ calls[1].handler /\ calls[2].handler
    /\ MapHas(pending, calls[1].id)
    /\ last.op = "line" /\ IsProgress(last.line) /\ IdKey(last.line) = calls[1].id
    /\ last.cb = 2

\* C10 as stated: once the .catch handler of a call has run for a failed
\* write, the id is not in the table and the promise is rejected with the
\* write error.
C10_WriteFailureRejects ==
    \A i \in CallIdx :
        caught[i] => (~MapHas(pending, calls[i].id) /\ fut[i] = Rejected(werr[i]))

\* C10 amended: once the .catch handler of a call has run for a failed write,
\* the id is not in the table, and the promise is rejected with the write
\* error unless a Response for the id had already settled it.
C10_WriteFailureRejectsUnlessSettled ==
    \A i \in CallIdx :
        caught[i] =>
            /\ ~MapHas(pending, calls[i].id)
            /\ fut[i] = Rejected(werr[i]) \/ SettledByResponse(fut[i])

\* C10 witness: a write callback reported an error and the call was rejected with it
C10_Witness ==
    \E i \in CallIdx :
        /\ caught[i] /\ werr[i] = WriteErr(i)
        /\ fut[i] = Rejected(werr[i])
        /\ ~MapHas(pending, calls[i].id)


\* C11: the table holds every id at most once, and an id in the table has not
\* received a matching Response: right after a success or failure Response
\* line carrying id X has been processed, X is not in the table.
C11_NoEntryAfterResponse ==
    /\ \A i, j \in CallIdx : calls[i].id = calls[j].id => i = j
    /\ \A x \in DOMAIN pending : \E i \in CallIdx : calls[i].id = x /\ pending[x] = i
    /\ (last.op = "line"
            /\ (IsSuccessResponse(last.line) \/ IsFailureResponse(last.line)))
         => ~MapHas(pending, IdKey(last.line))

\* no host activity is left that could settle a promise: the worker has
\* exited, its output is closed, and every write has run to its end
Quiescent ==
    /\ procExited /\ ~rlOpen /\ ~MicrotaskEnabled
    /\ \A i \in CallIdx : w[i] \in {"done", "failed"}

\* C12: when the worker has exited with a call still pending, the call's
\* promise fails with a "worker terminated" error and leaves the table: once
\* the worker is gone and nothing is left to run, no promise is still pending.
C12_ExitFailsPending ==
    Quiescent =>
        \A i \in CallIdx :
            /\ fut[i].st # "pending"
            /\ ~MapHas(pending, calls[i].id)


\* C13: the 'exit' and 'error' events, the closing of the worker's output and
\* the flush timer change neither the table nor any promise; a call whose
\* write succeeded stays pending, and in the table, across every step that
\* is not a line carrying its id.
C13_OnlyResponseSettlesWritten ==
    [][/\ last'.op \in {"exit", "error", "close", "flushTimer"}
            => (pending' = pending /\ fut' = fut)
       /\ \A i \in CallIdx :
            (/\ w[i] \in {"flushing", "done"}
             /\ fut[i].st = "pending"
             /\ ~(LineStep /\ IdKey(last'.line) = calls[i].id))
                => (fut'[i].st = "pending" /\ MapHas(pending', calls[i].id))]_vars

\* C13 witness: the worker exited and its output closed after a call's write
\* succeeded; the call is still pending and in the table
C13_Witness ==
    /\ Quiescent
    /\ \E i \in CallIdx :
          w[i] = "done" /\ fut[i].st = "pending" /\ MapHas(pending, calls[i].id)


\* C14: when a call's request is handed to stdin, its id is already in the
\* table, entered by that call, and its promise is pending; a Response line
\* that finds an entry finds the entry of a call whose request was handed.
C14_RegisteredBeforeTransmitted ==
    /\ (last.op = "startWrite" /\ w[last.i] = "writing")
            => /\ MapHas(pending, calls[last.i].id)
               /\ pending[calls[last.i].id] = last.i
               /\ fut[last.i].st = "pending"
    /\ \A i \in CallIdx : Handed(i) => w[i] # "queued"
    /\ (last.op = "line" /\ last.hit) => Handed(last.i)

\* C14 witness: the second call's request has just been handed to stdin
C14_Witness ==
    /\ last.op = "startWrite" /\ last.i = 2
    /\ Handed(2)
    /\ MapHas(pending, calls[2].id)

\* C15: at most one write is in flight; a write begins only after the link
\* of every earlier call is fulfilled (callback fired, timer resolved).
C15_OneWriteInFlight ==
    /\ \A i, j \in CallIdx :
          (w[i] \in {"writing", "flushing"} /\ w[j] \in {"writing", "flushing"}) => i = j
    /\ \A i \in CallIdx :
          w[i] \in {"writing", "flushing", "done"} => \A j \in 1..(i - 1) : w[j] = "done"

\* C15 witness: two calls were queued together; the second write is in flight
\* and the first has completed
C15_Witness ==
    /\ NumCalls >= 2
    /\ w[1] = "done" /\ w[2] = "writing"
    /\ Len(stdin) = 4


\* the number of times call i's record was handed to stdin.write
TimesHanded(i) == Cardinality({k \in 1..Len(stdin) : stdin[k] = JsonTok(calls[i])})

\* C16: each call's request is handed to stdin at most once, and every record
\* on stdin is the request of some call.
C16_NoRetry ==
    /\ \A i \in CallIdx : TimesHanded(i) <= 1
    /\ \A k \in 1..Len(stdin) :
          stdin[k].t = "json" => \E i \in CallIdx : stdin[k] = JsonTok(calls[i])
    /\ Len(stdin) <= 2 * NumCalls

\* C16 witness: one call was answered with an error Response, another call's
\* write failed and was reported, and the worker exited; each request is on
\* stdin once
C16_Witness ==
    /\ procExited
    /\ \E i, j \in CallIdx :
          /\ fut[i].st = "rejected" /\ fut[i].err.kind = "resp"
          /\ w[j] = "failed" /\ werr[j].kind = "write" /\ caught[j]
          /\ TimesHanded(i) = 1 /\ TimesHanded(j) = 1


\* C17: processing a Progress line, with or without an installed handler and
\* whatever id it carries, removes no entry from the table and settles no
\* promise.
C17_ProgressNeverSettles ==
    [][(LineStep /\ IsProgress(last'.line)) => (pending' = pending /\ fut' = fut)]_vars


\* C18: a call's id is in the table exactly while its promise is pending; a
\* settled promise keeps its outcome in every later step, and a settled
\* call's id is not in the table again.
C18_InTableIffPending ==
    /\ [](\A i \in CallIdx : MapHas(pending, calls[i].id) <=> fut[i].st = "pending")
    /\ [][\A i \in CallIdx :
            fut[i].st # "pending"
                => (fut'[i] = fut[i] /\ ~MapHas(pending', calls[i].id))]_vars

\* C18 witness: one call was settled by a Response and is out of the table
\* while a later call is pending and in it
C18_Witness ==
    /\ NumCalls >= 2
    /\ SettledByResponse(fut[1]) /\ ~MapHas(pending, calls[1].id)
    /\ fut[2].st = "pending" /\ MapHas(pending, calls[2].id)


\* C19: the installed progress handler is always that of the most recent call
\* that supplied one (none before any did); a call without a handler, and the
\* settling or write failure of the installing call, leave it installed, and
\* a Progress line is delivered to it.
C19_HandlerNeverCleared ==
    /\ progressCb = LatestHandler
    /\ (last.op = "line" /\ IsProgress(last.line)) => last.cb = LatestHandler

\* C19 witness: call 1 installed its handler and has been settled, call 2
\* supplied none, and a Progress line has just been delivered to call 1's
\* handler
C19_Witness ==
    /\ NumCalls = 2
    /\ calls[1].handler /\ ~calls[2].handler
    /\ fut[1].st # "pending"
    /\ last.op = "line" /\ IsProgress(last.line) /\ last.cb = 1


\* the step just taken processed a success or failure Response carrying the
\* id of call i
ResponseStepFor(i) ==
    /\ LineStep
    /\ IsSuccessResponse(last'.line) \/ IsFailureResponse(last'.line)
    /\ IdKey(last'.line) = calls[i].id

\* C20: a call's Response and the completion of its write may come in either
\* order and the first settling event decides: a Response processed while the
\* promise is pending, before or after the write was acknowledged, settles
\* the call with the Response's outcome; a write callback, flush timer or
\* .catch run after a Response settled the call keeps that outcome and
\* leaves the id out of the table; a Response after a reported write failure
\* keeps the rejection.
C20_FirstOutcomeKept ==
    [][\A i \in CallIdx :
        /\ (ResponseStepFor(i) /\ fut[i].st = "pending"
                /\ w[i] \in {"writing", "flushing", "done"})
              => /\ SettledByResponse(fut'[i])
                 /\ ~MapHas(pending', calls[i].id)
        /\ (SettledByResponse(fut[i])
                /\ last'.op \in {"writeCallback", "flushTimer", "catch"} /\ last'.i = i)
              => /\ fut'[i] = fut[i]
                 /\ ~MapHas(pending', calls[i].id)
        /\ (ResponseStepFor(i) /\ fut[i].st # "pending")
              => /\ fut'[i] = fut[i]
                 /\ ~MapHas(pending', calls[i].id)]_vars

====
